---- MODULE Spec2Model ----
(***************************************************************************)
(* Model of uWS::Loop (src/src/Loop.h): the per-thread lazily created     *)
(* event loop, its deferred-work queue, its pre/post handler registries   *)
(* and the cork check made after every iteration.                         *)
(***************************************************************************)
EXTENDS Integers, Sequences, FiniteSets, TLC

\* ------------------------------------------------------------------ bounds
\* Number of us_create_loop calls a behaviour may make.
MaxLoops == 3
\* Number of callbacks a behaviour may defer.
MaxCb == 3
\* Number of distinct handler keys.
MaxKeys == 2
\* Number of clock ticks a behaviour may take.
MaxTicks == 5

\* --------------------------------------------------------------- constants
\* us_timer_set(dateTimer, cb, 1000, 1000): milliseconds to the first firing
\* and between firings.
DateTimerInitialMs == 1000
DateTimerRepeatMs == 1000

\* The granularity of the reactor's clock in milliseconds: time is observed
\* at multiples of it.
TickMs == 500

\* ------------------------------------------------------------- value sets
\* Threads that own a thread_local LoopCleaner (they call get/free/run).
Threads == {"T1", "T2"}

\* The null pointer (Loop *loop = nullptr).
nullptr == 0

\* Loop handles returned by us_create_loop; handle h is the h-th loop created.
Handles == 1..MaxLoops

\* Values of get()'s existingNativeLoop argument: nullptr or a native loop.
NativeLoops == {nullptr, 1}

\* Foreign threads that only call defer on another thread's loop.
Producers == {"P1", "P2"}

\* Keys (void *key) and callbacks registered in the handler registries.
Keys == 1..MaxKeys
HandlerFns == {"a", "b"}

\* What a user callback does with the loop while it runs.
Sockets == {1}

VARIABLES
    lazyLoop,     \* [Threads -> [loop, cleanMe]]: the thread_local LoopCleaner
    exited,       \* [Threads -> BOOLEAN]: the thread has exited (~LoopCleaner ran)
    numLoops,     \* number of loops created so far by us_create_loop
    loopState,    \* [Handles -> {"uninit","live","freed"}]: LoopData constructed / destructed
    adopted,      \* [Handles -> BOOLEAN]: the reactor's record that the loop had a hint
    owner,        \* [Handles -> Threads]: the thread whose get() created the loop
    getRet,       \* [Threads -> [loop, created, arg]]: what the thread's last get() returned, whether it created, its argument
    autoFreed,    \* handles freed by ~LoopCleaner at thread exit
    pc,           \* [Threads -> "idle","pre","dispatch","drain","post"]: place in us_loop_run
    it,           \* [Threads -> Nat]: position of the range-for in preCb / postCb
    terminated,   \* the process was ended: std::terminate() was called, or it crashed
    wakeupPending,\* [Handles -> BOOLEAN]: us_wakeup_loop signalled, wakeupCb not yet fired
    deferQueue,   \* [Handles -> Seq([seq, by, during])]: LoopData::deferQueue, each callback with its enqueue number, who deferred it, in which drain
    prod,         \* [Producers -> [at, loop, cb]]: position of a foreign thread inside defer
    numDeferred,  \* number of callbacks handed to defer so far
    invoked,      \* Seq([cb, thread, loop, drain]): callbacks run so far, by which thread, in which drain
    numDrains,    \* number of times the reactor has called wakeupCb
    preHandlers,  \* [Handles -> Seq([key, fn])]: LoopData::preHandlers
    postHandlers, \* [Handles -> Seq([key, fn])]: LoopData::postHandlers
    corkedSocket, \* [Handles -> socket or nullptr]: LoopData::corkedSocket
    preLog,       \* [Handles -> Seq([key, fn])]: handlers run by the current / last preCb
    postLog,      \* [Handles -> Seq([key, fn])]: handlers run by the current / last postCb
    preReg,       \* [Handles -> [Keys -> fn or "none"]]: what add/remove calls registered
    postReg,      \* same for the post registry
    preOrder,     \* [Handles -> Seq(Keys)]: registered keys in order of registration
    postOrder,    \* same for the post registry
    lastCall,     \* [op, reg, loop, key, fn, had]: the add/remove call the last step made, and what the key held before
    now,          \* the reactor's clock, in milliseconds
    dateTimer,    \* [Handles -> [state, next, repeat, data]]: LoopData::dateTimer, its next firing and period, the LoopData * in its extension
    dateString,   \* [Handles -> time or unset]: LoopData::dateString, as the time updateDate formatted
    createdAt,    \* [Handles -> time]: the clock when Loop::create made the loop
    lastUpdate,   \* [timer, data, thread, live]: the last call of the date timer's handler, and whether its LoopData was alive
    noMark,       \* [Handles -> BOOLEAN]: LoopData::noMark
    freeLog,      \* [Handles -> Seq(step)]: the steps Loop::free has performed on the loop, in order
    usedInvalid   \* a range-for of preCb / postCb has advanced an iterator whose entry was erased

lifeVars == <<lazyLoop, exited, numLoops, loopState, adopted, owner, getRet, autoFreed>>
reactorVars == <<pc, it, terminated, wakeupPending>>
deferVars == <<deferQueue, prod, numDeferred, invoked, numDrains>>
registryVars == <<preHandlers, postHandlers, preReg, postReg, preOrder, postOrder>>
passVars == <<corkedSocket, preLog, postLog>>
dateVars == <<now, dateTimer, dateString, createdAt, lastUpdate>>

vars == <<lifeVars, reactorVars, deferVars, registryVars, lastCall, passVars, dateVars, noMark, freeLog,
         usedInvalid>>

\* No add/remove call was made by the last step.
NoCall == [op |-> "none", reg |-> "none", loop |-> 0, key |-> 0, fn |-> "none", had |-> "none"]

\* The value of dateString before updateDate has formatted a time into it.
unset == -1

\* The date timer's handler has not been called.
NoUpdate == [timer |-> nullptr, data |-> nullptr, thread |-> "none", live |-> TRUE]

\* The loop a thread's LoopCleaner currently points at.
loopOf(t) == lazyLoop[t].loop

\* ------------------------------------------------------------------- Init
\* No thread has called get(): every LoopCleaner holds loop = nullptr, cleanMe = false.
Init ==
    /\ lazyLoop = [t \in Threads |-> [loop |-> nullptr, cleanMe |-> FALSE]]
    /\ exited = [t \in Threads |-> FALSE]
    /\ numLoops = 0
    /\ loopState = [h \in Handles |-> "uninit"]
    /\ adopted = [h \in Handles |-> FALSE]
    /\ owner = [h \in Handles |-> "T1"]
    /\ getRet = [t \in Threads |-> [loop |-> nullptr, created |-> FALSE, arg |-> nullptr]]
    /\ autoFreed = {}
    /\ pc = [t \in Threads |-> "idle"]
    /\ it = [t \in Threads |-> 1]
    /\ terminated = FALSE
    /\ wakeupPending = [h \in Handles |-> FALSE]
    /\ deferQueue = [h \in Handles |-> << >>]
    /\ prod = [p \in Producers |-> [at |-> "idle", loop |-> nullptr]]
    /\ numDeferred = 0
    /\ invoked = << >>
    /\ numDrains = 0
    /\ preHandlers = [h \in Handles |-> << >>]
    /\ postHandlers = [h \in Handles |-> << >>]
    /\ corkedSocket = [h \in Handles |-> nullptr]
    /\ preLog = [h \in Handles |-> << >>]
    /\ postLog = [h \in Handles |-> << >>]
    /\ preReg = [h \in Handles |-> [k \in Keys |-> "none"]]
    /\ postReg = [h \in Handles |-> [k \in Keys |-> "none"]]
    /\ preOrder = [h \in Handles |-> << >>]
    /\ postOrder = [h \in Handles |-> << >>]
    /\ lastCall = NoCall
    /\ now = 0
    /\ dateTimer = [h \in Handles |-> [state |-> "none", next |-> 0, repeat |-> 0, data |-> nullptr]]
    /\ dateString = [h \in Handles |-> unset]
    /\ createdAt = [h \in Handles |-> 0]
    /\ lastUpdate = NoUpdate
    /\ noMark = [h \in Handles |-> FALSE]
    /\ freeLog = [h \in Handles |-> << >>]
    /\ usedInvalid = FALSE

\* ------------------------------------------------------------- lifecycle
\* Loop::init(): placement-new of a default LoopData in the loop's extension.
init(h) ==
    /\ deferQueue' = [deferQueue EXCEPT ![h] = << >>]
    /\ preHandlers' = [preHandlers EXCEPT ![h] = << >>]
    /\ postHandlers' = [postHandlers EXCEPT ![h] = << >>]
    /\ corkedSocket' = [corkedSocket EXCEPT ![h] = nullptr]
    /\ dateString' = [dateString EXCEPT ![h] = unset]
    /\ noMark' = [noMark EXCEPT ![h] = FALSE]

\* Loop::create(hint) that sets the date timer without a repeat period.
createTimerNoRepeat(t, h, hint) ==
    /\ numLoops' = h
    /\ loopState' = [loopState EXCEPT ![h] = "live"]
    /\ adopted' = [adopted EXCEPT ![h] = (hint # nullptr)]
    /\ owner' = [owner EXCEPT ![h] = t]
    /\ wakeupPending' = [wakeupPending EXCEPT ![h] = FALSE]
    /\ init(h)
    /\ dateTimer' = [dateTimer EXCEPT ![h] =
            [state |-> "armed", next |-> now + DateTimerInitialMs, repeat |-> 0, data |-> h]]
    /\ createdAt' = [createdAt EXCEPT ![h] = now]

\* Loop::create(hint): us_create_loop returns a fresh loop h, LoopData is
\* constructed in its extension, the date timer is created with a pointer to
\* that LoopData in its extension and set to fire after DateTimerInitialMs and
\* then every DateTimerRepeatMs.
create(t, h, hint) ==
    /\ numLoops' = h
    /\ loopState' = [loopState EXCEPT ![h] = "live"]
    /\ adopted' = [adopted EXCEPT ![h] = (hint # nullptr)]
    /\ owner' = [owner EXCEPT ![h] = t]
    /\ wakeupPending' = [wakeupPending EXCEPT ![h] = FALSE]
    /\ init(h)
    /\ dateTimer' = [dateTimer EXCEPT ![h] =
            [state |-> "armed", next |-> now + DateTimerInitialMs,
             repeat |-> DateTimerRepeatMs, data |-> h]]
    /\ createdAt' = [createdAt EXCEPT ![h] = now]

\* Loop::get(existingNativeLoop) with the test of the slot dropped: it creates on every call.
getAlwaysCreates(t, existingNativeLoop) ==
    /\ ~terminated
    /\ lastCall' = NoCall
    /\ UNCHANGED <<now, lastUpdate, freeLog, usedInvalid>>
    /\ ~exited[t]
    /\ numLoops < MaxLoops
    /\ create(t, numLoops + 1, existingNativeLoop)
    /\ lazyLoop' = [lazyLoop EXCEPT ![t] =
            [loop |-> numLoops + 1,
             cleanMe |-> IF existingNativeLoop # nullptr THEN @.cleanMe ELSE TRUE]]
    /\ getRet' = [getRet EXCEPT ![t] =
            [loop |-> numLoops + 1, created |-> TRUE, arg |-> existingNativeLoop]]
    /\ UNCHANGED <<exited, autoFreed, pc, it, terminated, prod, numDeferred, invoked, numDrains>>
    /\ UNCHANGED <<preReg, postReg, preOrder, postOrder, preLog, postLog>>

\* Loop::get(existingNativeLoop) that sets cleanMe from its argument on every
\* call, also when the thread already has a loop.
getOverwritesFlag(t, existingNativeLoop) ==
    /\ ~terminated
    /\ lastCall' = NoCall
    /\ UNCHANGED <<now, lastUpdate, freeLog, usedInvalid>>
    /\ ~exited[t]
    /\ IF loopOf(t) = nullptr
       THEN /\ numLoops < MaxLoops
            /\ create(t, numLoops + 1, existingNativeLoop)
            /\ lazyLoop' = [lazyLoop EXCEPT ![t] =
                    [loop |-> numLoops + 1, cleanMe |-> existingNativeLoop = nullptr]]
            /\ getRet' = [getRet EXCEPT ![t] =
                    [loop |-> numLoops + 1, created |-> TRUE, arg |-> existingNativeLoop]]
       ELSE /\ lazyLoop' = [lazyLoop EXCEPT ![t].cleanMe = (existingNativeLoop = nullptr)]
            /\ getRet' = [getRet EXCEPT ![t] =
                    [loop |-> loopOf(t), created |-> FALSE, arg |-> existingNativeLoop]]
            /\ UNCHANGED <<numLoops, loopState, adopted, owner, wakeupPending>>
            /\ UNCHANGED <<deferQueue, preHandlers, postHandlers, corkedSocket>>
            /\ UNCHANGED <<dateTimer, dateString, createdAt, noMark>>
    /\ UNCHANGED <<exited, autoFreed, pc, it, terminated, prod, numDeferred, invoked, numDrains>>
    /\ UNCHANGED <<preReg, postReg, preOrder, postOrder, preLog, postLog>>

\* Loop::get(existingNativeLoop)
get(t, existingNativeLoop) ==
    /\ ~terminated
    /\ lastCall' = NoCall
    /\ UNCHANGED <<now, lastUpdate, freeLog, usedInvalid>>
    /\ ~exited[t]
    /\ IF loopOf(t) = nullptr
       THEN /\ numLoops < MaxLoops
            /\ create(t, numLoops + 1, existingNativeLoop)
            /\ lazyLoop' = [lazyLoop EXCEPT ![t] =
                    [loop |-> numLoops + 1,
                     cleanMe |-> IF existingNativeLoop # nullptr THEN @.cleanMe ELSE TRUE]]
            /\ getRet' = [getRet EXCEPT ![t] =
                    [loop |-> numLoops + 1, created |-> TRUE, arg |-> existingNativeLoop]]
       ELSE /\ getRet' = [getRet EXCEPT ![t] =
                    [loop |-> loopOf(t), created |-> FALSE, arg |-> existingNativeLoop]]
            /\ UNCHANGED <<numLoops, loopState, adopted, owner, lazyLoop, wakeupPending>>
            /\ UNCHANGED <<deferQueue, preHandlers, postHandlers, corkedSocket>>
            /\ UNCHANGED <<dateTimer, dateString, createdAt, noMark>>
    /\ UNCHANGED <<exited, autoFreed, pc, it, terminated, prod, numDeferred, invoked, numDrains>>
    /\ UNCHANGED <<preReg, postReg, preOrder, postOrder, preLog, postLog>>

\* The body of Loop::free() run by thread t on loop h: the date timer is closed,
\* LoopData is destructed (the callbacks left in deferQueue are destroyed with
\* it: the queue of a freed loop is kept as the record of what was discarded),
\* the reactor frees the loop, and the calling thread's slot is reset (cleanMe
\* is left as it is).
freeBody(t, h) ==
    /\ dateTimer' = [dateTimer EXCEPT ![h].state = "closed"]
    /\ loopState' = [loopState EXCEPT ![h] = "freed"]
    /\ lazyLoop' = [lazyLoop EXCEPT ![t].loop = nullptr]
    /\ freeLog' = [freeLog EXCEPT ![h] =
            <<"us_timer_close", "~LoopData", "us_loop_free", "reset lazyLoop">>]

\* Loop::free() that leaves the thread-local slot pointing at the freed loop.
freeKeepsSlot(t) ==
    /\ ~terminated
    /\ lastCall' = NoCall
    /\ UNCHANGED <<now, dateString, createdAt, lastUpdate, noMark, usedInvalid>>
    /\ ~exited[t]
    /\ pc[t] = "idle"
    /\ loopOf(t) # nullptr
    /\ dateTimer' = [dateTimer EXCEPT ![loopOf(t)].state = "closed"]
    /\ loopState' = [loopState EXCEPT ![loopOf(t)] = "freed"]
    /\ freeLog' = [freeLog EXCEPT ![loopOf(t)] =
            <<"us_timer_close", "~LoopData", "us_loop_free">>]
    /\ UNCHANGED <<lazyLoop, exited, numLoops, adopted, owner, getRet, autoFreed>>
    /\ UNCHANGED <<reactorVars, deferVars, registryVars, passVars>>

\* Loop::free() that runs the callbacks left in deferQueue before it destructs LoopData.
freeRunsQueued(t) ==
    LET h == loopOf(t)
        q == deferQueue[h]
    IN  /\ ~terminated
        /\ lastCall' = NoCall
        /\ UNCHANGED <<now, dateString, createdAt, lastUpdate, noMark, usedInvalid>>
        /\ ~exited[t]
        /\ pc[t] = "idle"
        /\ h # nullptr
        /\ freeBody(t, h)
        /\ invoked' = invoked \o [i \in 1..Len(q) |->
                [cb |-> q[i], thread |-> t, loop |-> h, drain |-> numDrains]]
        /\ UNCHANGED <<exited, numLoops, adopted, owner, getRet, autoFreed>>
        /\ UNCHANGED <<reactorVars, deferQueue, prod, numDeferred, numDrains, registryVars, passVars>>

\* Loop::free() that does not close the date timer.
freeLeavesTimer(t) ==
    /\ ~terminated
    /\ lastCall' = NoCall
    /\ UNCHANGED <<dateVars, noMark, usedInvalid>>
    /\ ~exited[t]
    /\ pc[t] = "idle"
    /\ loopOf(t) # nullptr
    /\ loopState' = [loopState EXCEPT ![loopOf(t)] = "freed"]
    /\ lazyLoop' = [lazyLoop EXCEPT ![t].loop = nullptr]
    /\ freeLog' = [freeLog EXCEPT ![loopOf(t)] =
            <<"~LoopData", "us_loop_free", "reset lazyLoop">>]
    /\ UNCHANGED <<exited, numLoops, adopted, owner, getRet, autoFreed>>
    /\ UNCHANGED <<reactorVars, deferVars, registryVars, passVars>>

\* Loop::free(), called by the owning thread on its current loop outside run().
free(t) ==
    /\ ~terminated
    /\ lastCall' = NoCall
    /\ UNCHANGED <<now, dateString, createdAt, lastUpdate, noMark, usedInvalid>>
    /\ ~exited[t]
    /\ pc[t] = "idle"
    /\ loopOf(t) # nullptr
    /\ freeBody(t, loopOf(t))
    /\ UNCHANGED <<exited, numLoops, adopted, owner, getRet, autoFreed>>
    /\ UNCHANGED <<reactorVars, deferVars, registryVars, passVars>>

\* Thread exit: ~LoopCleaner() runs, if (loop && cleanMe) loop->free().
ThreadExit(t) ==
    /\ ~terminated
    /\ lastCall' = NoCall
    /\ UNCHANGED <<now, dateString, createdAt, lastUpdate, noMark, usedInvalid>>
    /\ ~exited[t]
    /\ pc[t] = "idle"
    /\ exited' = [exited EXCEPT ![t] = TRUE]
    /\ IF loopOf(t) # nullptr /\ lazyLoop[t].cleanMe
       THEN /\ freeBody(t, loopOf(t))
            /\ autoFreed' = autoFreed \cup {loopOf(t)}
       ELSE UNCHANGED <<loopState, lazyLoop, autoFreed, dateTimer, freeLog>>
    /\ UNCHANGED <<numLoops, adopted, owner, getRet>>
    /\ UNCHANGED <<reactorVars, deferVars, registryVars, passVars>>

\* ------------------------------------------------------- the containers
\* deferQueue.emplace(cb): the callback is appended.
emplaceBack(q, cb) == Append(q, cb)

\* Position of key k in registry m, 0 when k has no entry.
find(m, k) ==
    IF \E i \in 1..Len(m) : m[i].key = k
    THEN CHOOSE i \in 1..Len(m) : m[i].key = k
    ELSE 0

\* handlers.emplace(key, handler) that leaves an entry already stored under the key as it is.
emplaceKeepsFirst(m, k, f) ==
    IF find(m, k) = 0
    THEN Append(m, [key |-> k, fn |-> f])
    ELSE m

\* handlers.emplace(key, handler) that keeps the registry sorted by key.
emplaceByKey(m, k, f) ==
    LET rest == SelectSeq(m, LAMBDA e : e.key # k)
    IN  SelectSeq(rest, LAMBDA e : e.key < k) \o <<[key |-> k, fn |-> f]>>
            \o SelectSeq(rest, LAMBDA e : e.key > k)

\* handlers.emplace(key, handler): insert, or replace the entry of the key in place.
emplace(m, k, f) ==
    IF find(m, k) = 0
    THEN Append(m, [key |-> k, fn |-> f])
    ELSE [m EXCEPT ![find(m, k)] = [key |-> k, fn |-> f]]

\* handlers.erase(key): the entry of the key is removed, the others keep their order.
erase(m, k) == SelectSeq(m, LAMBDA e : e.key # k)

\* ------------------------------------------------------------- iteration
\* The start of one iteration of us_loop_run: preCb begins its range-for.
startIteration(t) ==
    /\ pc' = [pc EXCEPT ![t] = "pre"]
    /\ it' = [it EXCEPT ![t] = 1]
    /\ preLog' = [preLog EXCEPT ![loopOf(t)] = << >>]

\* Loop::run(): us_loop_run enters its first iteration.
run(t) ==
    /\ ~terminated
    /\ lastCall' = NoCall
    /\ UNCHANGED <<dateVars, noMark, freeLog, usedInvalid>>
    /\ ~exited[t]
    /\ pc[t] = "idle"
    /\ loopOf(t) # nullptr
    /\ startIteration(t)
    /\ UNCHANGED <<lifeVars, terminated, wakeupPending, deferVars, registryVars>>
    /\ UNCHANGED <<corkedSocket, postLog>>

\* Loop::preCb: one handler of the range-for per step, in the registry's order;
\* the handler may take or release the cork buffer. After the last handler the
\* reactor goes on to poll and dispatch.
preCb(t) ==
    LET h == loopOf(t)
    IN  /\ ~terminated
        /\ lastCall' = NoCall
        /\ UNCHANGED <<dateVars, noMark, freeLog, usedInvalid>>
        /\ pc[t] = "pre"
        /\ IF it[t] <= Len(preHandlers[h])
           THEN /\ preLog' = [preLog EXCEPT ![h] = Append(@, preHandlers[h][it[t]])]
                /\ \E s \in Sockets \cup {nullptr} :
                        corkedSocket' = [corkedSocket EXCEPT ![h] = s]
                /\ it' = [it EXCEPT ![t] = @ + 1]
                /\ UNCHANGED pc
           ELSE /\ pc' = [pc EXCEPT ![t] = "dispatch"]
                /\ it' = [it EXCEPT ![t] = 1]
                /\ preLog' = [preLog EXCEPT ![h] = << >>]
                /\ UNCHANGED corkedSocket
        /\ UNCHANGED <<lifeVars, terminated, wakeupPending, deferVars, registryVars, postLog>>

\* The reactor's dispatch of the ready I/O and timer events of the iteration:
\* user callbacks may take or release the cork buffer. Then, when a wakeup is
\* pending, it is consumed and wakeupCb is called, else postCb is.
dispatch(t) ==
    LET h == loopOf(t)
    IN  /\ ~terminated
        /\ lastCall' = NoCall
        /\ UNCHANGED <<dateVars, noMark, freeLog, usedInvalid>>
        /\ pc[t] = "dispatch"
        /\ \E s \in Sockets \cup {nullptr} :
                corkedSocket' = [corkedSocket EXCEPT ![h] = s]
        /\ IF wakeupPending[h]
           THEN /\ wakeupPending' = [wakeupPending EXCEPT ![h] = FALSE]
                /\ pc' = [pc EXCEPT ![t] = "drain"]
                /\ numDrains' = numDrains + 1
                /\ UNCHANGED <<it, postLog>>
           ELSE /\ pc' = [pc EXCEPT ![t] = "post"]
                /\ it' = [it EXCEPT ![t] = 1]
                /\ postLog' = [postLog EXCEPT ![h] = << >>]
                /\ UNCHANGED <<wakeupPending, numDrains>>
        /\ UNCHANGED <<lifeVars, terminated, deferQueue, prod, numDeferred, invoked>>
        /\ UNCHANGED <<registryVars, preLog>>

\* ---------------------------------------------------------------- defer
\* The number of the wakeupCb call that is draining loop h at this moment, 0
\* when none is: kept in a callback to tell when it was enqueued.
drainOf(h) == IF pc[owner[h]] = "drain" /\ loopOf(owner[h]) = h THEN numDrains ELSE 0

\* Loop::defer called from inside a callback running on the loop thread t:
\* the new callback is enqueued, then the loop is woken up.
deferFromCallback(t, h, q) ==
    /\ numDeferred < MaxCb
    /\ deferQueue' = [deferQueue EXCEPT ![h] =
            emplaceBack(q, [seq |-> numDeferred + 1, by |-> t, during |-> drainOf(h)])]
    /\ numDeferred' = numDeferred + 1
    /\ wakeupPending' = [wakeupPending EXCEPT ![h] = TRUE]

\* Loop::wakeupCb that does not return when try_pop finds deferQueue empty.
wakeupCbSpins(t) ==
    LET h == loopOf(t)
        q == deferQueue[h]
    IN  /\ ~terminated
        /\ lastCall' = NoCall
        /\ UNCHANGED <<dateVars, noMark, freeLog, usedInvalid>>
        /\ pc[t] = "drain"
        /\ IF q # << >>
           THEN /\ invoked' = Append(invoked, [cb |-> Head(q), thread |-> t, loop |-> h, drain |-> numDrains])
                /\ \/ /\ deferQueue' = [deferQueue EXCEPT ![h] = Tail(q)]
                      /\ UNCHANGED <<numDeferred, wakeupPending>>
                   \/ deferFromCallback(t, h, Tail(q))
           ELSE UNCHANGED <<deferQueue, numDeferred, invoked, wakeupPending>>
        /\ UNCHANGED <<pc, it, postLog>>
        /\ UNCHANGED <<lifeVars, terminated, prod, numDrains, registryVars, corkedSocket, preLog>>

\* Loop::wakeupCb that runs one callback and returns.
wakeupCbOnce(t) ==
    LET h == loopOf(t)
        q == deferQueue[h]
    IN  /\ ~terminated
        /\ lastCall' = NoCall
        /\ UNCHANGED <<dateVars, noMark, freeLog, usedInvalid>>
        /\ pc[t] = "drain"
        /\ IF q # << >>
           THEN /\ invoked' = Append(invoked, [cb |-> Head(q), thread |-> t, loop |-> h, drain |-> numDrains])
                /\ \/ /\ deferQueue' = [deferQueue EXCEPT ![h] = Tail(q)]
                      /\ UNCHANGED <<numDeferred, wakeupPending>>
                   \/ deferFromCallback(t, h, Tail(q))
           ELSE UNCHANGED <<deferQueue, numDeferred, invoked, wakeupPending>>
        /\ pc' = [pc EXCEPT ![t] = "post"]
        /\ it' = [it EXCEPT ![t] = 1]
        /\ postLog' = [postLog EXCEPT ![h] = << >>]
        /\ UNCHANGED <<lifeVars, terminated, prod, numDrains, registryVars, corkedSocket, preLog>>

\* Loop::wakeupCb popping the newest callback instead of the oldest.
wakeupCbLifo(t) ==
    LET h == loopOf(t)
        q == deferQueue[h]
    IN  /\ ~terminated
        /\ lastCall' = NoCall
        /\ UNCHANGED <<dateVars, noMark, freeLog, usedInvalid>>
        /\ pc[t] = "drain"
        /\ IF q # << >>
           THEN /\ invoked' = Append(invoked, [cb |-> q[Len(q)], thread |-> t, loop |-> h, drain |-> numDrains])
                /\ \/ /\ deferQueue' = [deferQueue EXCEPT ![h] = SubSeq(q, 1, Len(q) - 1)]
                      /\ UNCHANGED <<numDeferred, wakeupPending>>
                   \/ deferFromCallback(t, h, SubSeq(q, 1, Len(q) - 1))
                /\ UNCHANGED <<pc, it, postLog>>
           ELSE /\ pc' = [pc EXCEPT ![t] = "post"]
                /\ it' = [it EXCEPT ![t] = 1]
                /\ postLog' = [postLog EXCEPT ![h] = << >>]
                /\ UNCHANGED <<deferQueue, numDeferred, invoked, wakeupPending>>
        /\ UNCHANGED <<lifeVars, terminated, prod, numDrains, registryVars, corkedSocket, preLog>>

\* Loop::wakeupCb: while try_pop yields a callback, run it (one per step; the
\* callback may itself call defer on this loop); when try_pop finds the queue
\* empty, return to the reactor, which goes on to postCb.
wakeupCb(t) ==
    LET h == loopOf(t)
        q == deferQueue[h]
    IN  /\ ~terminated
        /\ lastCall' = NoCall
        /\ UNCHANGED <<dateVars, noMark, freeLog, usedInvalid>>
        /\ pc[t] = "drain"
        /\ IF q # << >>
           THEN /\ invoked' = Append(invoked, [cb |-> Head(q), thread |-> t, loop |-> h, drain |-> numDrains])
                /\ \/ /\ deferQueue' = [deferQueue EXCEPT ![h] = Tail(q)]
                      /\ UNCHANGED <<numDeferred, wakeupPending>>
                   \/ deferFromCallback(t, h, Tail(q))
                /\ UNCHANGED <<pc, it, postLog>>
           ELSE /\ pc' = [pc EXCEPT ![t] = "post"]
                /\ it' = [it EXCEPT ![t] = 1]
                /\ postLog' = [postLog EXCEPT ![h] = << >>]
                /\ UNCHANGED <<deferQueue, numDeferred, invoked, wakeupPending>>
        /\ UNCHANGED <<lifeVars, terminated, prod, numDrains, registryVars, corkedSocket, preLog>>

\* Loop::wakeupCb running a callback that defers itself again (lines 35-37
\* with the callback's call of defer, 163-169): the callback is popped, runs,
\* and is enqueued anew at the back of the queue under the number it has. The
\* number of times a callback may do so is not bounded; of its runs the one
\* recorded is the last, after which it is not enqueued again.
wakeupCbRedefer(t) ==
    LET h == loopOf(t)
        q == deferQueue[h]
    IN  /\ ~terminated
        /\ lastCall' = NoCall
        /\ UNCHANGED <<dateVars, noMark, freeLog, usedInvalid>>
        /\ pc[t] = "drain"
        /\ q # << >>
        /\ deferQueue' = [deferQueue EXCEPT ![h] =
                emplaceBack(Tail(q), Head(q))]
        /\ wakeupPending' = [wakeupPending EXCEPT ![h] = TRUE]
        /\ UNCHANGED <<pc, it, postLog, numDeferred, invoked>>
        /\ UNCHANGED <<lifeVars, terminated, prod, numDrains, registryVars, corkedSocket, preLog>>

\* Loop::defer that runs the callback at once on the calling thread.
deferRunsInline(p, h) ==
    /\ ~terminated
    /\ lastCall' = NoCall
    /\ UNCHANGED <<dateVars, noMark, freeLog, usedInvalid>>
    /\ loopState[h] = "live"
    /\ prod[p].at = "idle"
    /\ numDeferred < MaxCb
    /\ numDeferred' = numDeferred + 1
    /\ invoked' = Append(invoked, [cb |-> [seq |-> numDeferred + 1, by |-> p, during |-> drainOf(h)], thread |-> p, loop |-> h, drain |-> numDrains])
    /\ UNCHANGED <<lifeVars, reactorVars, deferQueue, prod, numDrains, registryVars, passVars>>

\* Loop::defer that wakes the loop up first and enqueues the callback afterwards.
deferWakesFirst(p, h) ==
    /\ ~terminated
    /\ lastCall' = NoCall
    /\ UNCHANGED <<dateVars, noMark, freeLog, usedInvalid>>
    /\ loopState[h] = "live"
    /\ \/ /\ prod[p].at = "idle"
          /\ numDeferred < MaxCb
          /\ wakeupPending' = [wakeupPending EXCEPT ![h] = TRUE]
          /\ prod' = [prod EXCEPT ![p] = [at |-> "wake", loop |-> h]]
          /\ UNCHANGED <<deferQueue, numDeferred>>
       \/ /\ prod[p] = [at |-> "wake", loop |-> h]
          /\ numDeferred < MaxCb
          /\ deferQueue' = [deferQueue EXCEPT ![h] =
                  emplaceBack(@, [seq |-> numDeferred + 1, by |-> p, during |-> drainOf(h)])]
          /\ numDeferred' = numDeferred + 1
          /\ prod' = [prod EXCEPT ![p] = [at |-> "idle", loop |-> nullptr]]
          /\ UNCHANGED wakeupPending
    /\ UNCHANGED <<lifeVars, pc, it, terminated, invoked, numDrains, registryVars, passVars>>

\* Loop::defer(cb) called by foreign thread p on live loop h, in its two steps:
\* deferQueue.emplace(cb), then us_wakeup_loop.
defer(p, h) ==
    /\ ~terminated
    /\ lastCall' = NoCall
    /\ UNCHANGED <<dateVars, noMark, freeLog, usedInvalid>>
    /\ loopState[h] = "live"
    /\ \/ /\ prod[p].at = "idle"
          /\ numDeferred < MaxCb
          /\ deferQueue' = [deferQueue EXCEPT ![h] =
                  emplaceBack(@, [seq |-> numDeferred + 1, by |-> p, during |-> drainOf(h)])]
          /\ numDeferred' = numDeferred + 1
          /\ prod' = [prod EXCEPT ![p] = [at |-> "wake", loop |-> h]]
          /\ UNCHANGED wakeupPending
       \/ /\ prod[p] = [at |-> "wake", loop |-> h]
          /\ wakeupPending' = [wakeupPending EXCEPT ![h] = TRUE]
          /\ prod' = [prod EXCEPT ![p] = [at |-> "idle", loop |-> nullptr]]
          /\ UNCHANGED <<deferQueue, numDeferred>>
    /\ UNCHANGED <<lifeVars, pc, it, terminated, invoked, numDrains, registryVars, passVars>>

\* Loop::postCb that returns after the post-handlers without testing corkedSocket.
postCbNoCheck(t) ==
    LET h == loopOf(t)
    IN  /\ ~terminated
        /\ lastCall' = NoCall
        /\ UNCHANGED <<dateVars, noMark, freeLog, usedInvalid>>
        /\ pc[t] = "post"
        /\ IF it[t] <= Len(postHandlers[h])
           THEN /\ postLog' = [postLog EXCEPT ![h] = Append(@, postHandlers[h][it[t]])]
                /\ \E s \in Sockets \cup {nullptr} :
                        corkedSocket' = [corkedSocket EXCEPT ![h] = s]
                /\ it' = [it EXCEPT ![t] = @ + 1]
                /\ UNCHANGED <<pc, terminated, preLog>>
           ELSE /\ \E more \in BOOLEAN :
                        IF more THEN startIteration(t)
                        ELSE /\ pc' = [pc EXCEPT ![t] = "idle"]
                             /\ it' = [it EXCEPT ![t] = 1]
                             /\ UNCHANGED preLog
                /\ postLog' = [postLog EXCEPT ![h] = << >>]
                /\ UNCHANGED <<terminated, corkedSocket>>
        /\ UNCHANGED <<lifeVars, wakeupPending, deferVars, registryVars>>

\* Loop::postCb that tests corkedSocket before its range-for instead of after it.
postCbChecksFirst(t) ==
    LET h == loopOf(t)
    IN  /\ ~terminated
        /\ lastCall' = NoCall
        /\ UNCHANGED <<dateVars, noMark, freeLog, usedInvalid>>
        /\ pc[t] = "post"
        /\ IF it[t] = 1 /\ corkedSocket[h] # nullptr
           THEN /\ terminated' = TRUE
                /\ UNCHANGED <<pc, it, postLog, preLog, corkedSocket>>
           ELSE IF it[t] <= Len(postHandlers[h])
           THEN /\ postLog' = [postLog EXCEPT ![h] = Append(@, postHandlers[h][it[t]])]
                /\ \E s \in Sockets \cup {nullptr} :
                        corkedSocket' = [corkedSocket EXCEPT ![h] = s]
                /\ it' = [it EXCEPT ![t] = @ + 1]
                /\ UNCHANGED <<pc, terminated, preLog>>
           ELSE /\ \E more \in BOOLEAN :
                        IF more THEN startIteration(t)
                        ELSE /\ pc' = [pc EXCEPT ![t] = "idle"]
                             /\ it' = [it EXCEPT ![t] = 1]
                             /\ UNCHANGED preLog
                /\ postLog' = [postLog EXCEPT ![h] = << >>]
                /\ UNCHANGED <<terminated, corkedSocket>>
        /\ UNCHANGED <<lifeVars, wakeupPending, deferVars, registryVars>>

\* Loop::postCb: one handler of the range-for per step, in the registry's order;
\* after the last one, if corkedSocket is set the process terminates, else
\* postCb returns and us_loop_run starts the next iteration or returns.
postCb(t) ==
    LET h == loopOf(t)
    IN  /\ ~terminated
        /\ lastCall' = NoCall
        /\ UNCHANGED <<dateVars, noMark, freeLog, usedInvalid>>
        /\ pc[t] = "post"
        /\ IF it[t] <= Len(postHandlers[h])
           THEN /\ postLog' = [postLog EXCEPT ![h] = Append(@, postHandlers[h][it[t]])]
                /\ \E s \in Sockets \cup {nullptr} :
                        corkedSocket' = [corkedSocket EXCEPT ![h] = s]
                /\ it' = [it EXCEPT ![t] = @ + 1]
                /\ UNCHANGED <<pc, terminated, preLog>>
           ELSE IF corkedSocket[h] # nullptr
           THEN /\ terminated' = TRUE
                /\ UNCHANGED <<pc, it, postLog, preLog, corkedSocket>>
           ELSE /\ \E more \in BOOLEAN :
                        IF more THEN startIteration(t)
                        ELSE /\ pc' = [pc EXCEPT ![t] = "idle"]
                             /\ it' = [it EXCEPT ![t] = 1]
                             /\ UNCHANGED preLog
                /\ postLog' = [postLog EXCEPT ![h] = << >>]
                /\ UNCHANGED <<terminated, corkedSocket>>
        /\ UNCHANGED <<lifeVars, wakeupPending, deferVars, registryVars>>

\* ------------------------------------------------------------ date timer
\* The clock advances by one tick. Time elapses while the reactor waits for
\* events (the loop thread is outside every callback), and no set timer is
\* left overdue: the reactor fires a timer when it is due.
Tick ==
    /\ ~terminated
    /\ lastCall' = NoCall
    /\ now < MaxTicks * TickMs
    /\ \A t \in Threads : pc[t] \in {"idle", "dispatch"}
    /\ \A h \in Handles : dateTimer[h].state = "armed" => now < dateTimer[h].next
    /\ now' = now + TickMs
    /\ UNCHANGED <<lifeVars, reactorVars, deferVars, registryVars, passVars>>
    /\ UNCHANGED <<dateTimer, dateString, createdAt, lastUpdate, noMark, freeLog, usedInvalid>>

\* The handler given to us_timer_set in Loop::create, called when the date
\* timer of loop h is due: it reads the LoopData * stored in the timer's
\* extension and calls updateDate on it. The reactor calls it from the
\* dispatch of the iteration the owning thread is running, or, for a loop on
\* a borrowed native loop, when the host runs that loop; the timer is then set
\* to its next period.
dateTimerCb(h) ==
    LET d == dateTimer[h].data
    IN  /\ ~terminated
        /\ lastCall' = NoCall
        /\ dateTimer[h].state = "armed"
        /\ now >= dateTimer[h].next
        /\ \/ pc[owner[h]] = "dispatch" /\ loopOf(owner[h]) = h
           \/ pc[owner[h]] = "idle" /\ adopted[h]
        /\ dateString' = [dateString EXCEPT ![d] = now]
        /\ lastUpdate' = [timer |-> h, data |-> d, thread |-> owner[h],
                          live |-> loopState[d] = "live"]
        /\ dateTimer' = [dateTimer EXCEPT ![h] =
                IF @.repeat > 0 THEN [@ EXCEPT !.next = @ + dateTimer[h].repeat]
                ELSE [@ EXCEPT !.state = "idle"]]
        /\ UNCHANGED <<lifeVars, reactorVars, deferVars, registryVars, passVars>>
        /\ UNCHANGED <<now, createdAt, noMark, freeLog, usedInvalid>>

\* ------------------------------------------------------------ registries
\* The loop thread may call add/remove between callbacks: before run() or from
\* the user callbacks the reactor dispatches.
outsideHandlers(t) ==
    /\ ~terminated
    /\ ~exited[t]
    /\ loopOf(t) # nullptr
    /\ pc[t] \in {"idle", "dispatch"}

\* The registration order after add(k): a new key goes last, a registered key stays.
ordered(o, k) == IF \E i \in 1..Len(o) : o[i] = k THEN o ELSE Append(o, k)

\* Loop::setSilent(silent)
setSilent(t, b) ==
    LET h == loopOf(t)
    IN  /\ outsideHandlers(t)
        /\ noMark' = [noMark EXCEPT ![h] = b]
        /\ lastCall' = NoCall
        /\ UNCHANGED <<dateVars, freeLog, usedInvalid>>
        /\ UNCHANGED <<lifeVars, reactorVars, deferVars, registryVars, passVars>>

\* Loop::addPreHandler that emplaces the handler into postHandlers.
addPreHandlerIntoPost(t, k, f) ==
    LET h == loopOf(t)
    IN  /\ outsideHandlers(t)
        /\ postHandlers' = [postHandlers EXCEPT ![h] = emplace(@, k, f)]
        /\ preReg' = [preReg EXCEPT ![h][k] = f]
        /\ preOrder' = [preOrder EXCEPT ![h] = ordered(@, k)]
        /\ lastCall' = [op |-> "add", reg |-> "pre", loop |-> h, key |-> k, fn |-> f, had |-> preReg[h][k]]
        /\ UNCHANGED <<dateVars, noMark, freeLog, usedInvalid>>
        /\ UNCHANGED <<lifeVars, reactorVars, deferVars, passVars>>
        /\ UNCHANGED <<preHandlers, postReg, postOrder>>

\* Loop::addPreHandler(key, handler)
addPreHandler(t, k, f) ==
    LET h == loopOf(t)
    IN  /\ outsideHandlers(t)
        /\ preHandlers' = [preHandlers EXCEPT ![h] = emplace(@, k, f)]
        /\ preReg' = [preReg EXCEPT ![h][k] = f]
        /\ preOrder' = [preOrder EXCEPT ![h] = ordered(@, k)]
        /\ lastCall' = [op |-> "add", reg |-> "pre", loop |-> h, key |-> k, fn |-> f, had |-> preReg[h][k]]
        /\ UNCHANGED <<dateVars, noMark, freeLog, usedInvalid>>
        /\ UNCHANGED <<lifeVars, reactorVars, deferVars, passVars>>
        /\ UNCHANGED <<postHandlers, postReg, postOrder>>

\* Loop::addPostHandler(key, handler)
addPostHandler(t, k, f) ==
    LET h == loopOf(t)
    IN  /\ outsideHandlers(t)
        /\ postHandlers' = [postHandlers EXCEPT ![h] = emplace(@, k, f)]
        /\ postReg' = [postReg EXCEPT ![h][k] = f]
        /\ postOrder' = [postOrder EXCEPT ![h] = ordered(@, k)]
        /\ lastCall' = [op |-> "add", reg |-> "post", loop |-> h, key |-> k, fn |-> f, had |-> postReg[h][k]]
        /\ UNCHANGED <<dateVars, noMark, freeLog, usedInvalid>>
        /\ UNCHANGED <<lifeVars, reactorVars, deferVars, passVars>>
        /\ UNCHANGED <<preHandlers, preReg, preOrder>>

\* Loop::removePreHandler that erases the key from postHandlers.
removePreHandlerErasesPost(t, k) ==
    LET h == loopOf(t)
    IN  /\ outsideHandlers(t)
        /\ postHandlers' = [postHandlers EXCEPT ![h] = erase(@, k)]
        /\ preReg' = [preReg EXCEPT ![h][k] = "none"]
        /\ preOrder' = [preOrder EXCEPT ![h] = SelectSeq(@, LAMBDA x : x # k)]
        /\ lastCall' = [op |-> "remove", reg |-> "pre", loop |-> h, key |-> k, fn |-> "none", had |-> preReg[h][k]]
        /\ UNCHANGED <<dateVars, noMark, freeLog, usedInvalid>>
        /\ UNCHANGED <<lifeVars, reactorVars, deferVars, passVars>>
        /\ UNCHANGED <<preHandlers, postReg, postOrder>>

\* Loop::removePreHandler(key)
removePreHandler(t, k) ==
    LET h == loopOf(t)
    IN  /\ outsideHandlers(t)
        /\ preHandlers' = [preHandlers EXCEPT ![h] = erase(@, k)]
        /\ preReg' = [preReg EXCEPT ![h][k] = "none"]
        /\ preOrder' = [preOrder EXCEPT ![h] = SelectSeq(@, LAMBDA x : x # k)]
        /\ lastCall' = [op |-> "remove", reg |-> "pre", loop |-> h, key |-> k, fn |-> "none", had |-> preReg[h][k]]
        /\ UNCHANGED <<dateVars, noMark, freeLog, usedInvalid>>
        /\ UNCHANGED <<lifeVars, reactorVars, deferVars, passVars>>
        /\ UNCHANGED <<postHandlers, postReg, postOrder>>

\* Loop::removePostHandler(key)
removePostHandler(t, k) ==
    LET h == loopOf(t)
    IN  /\ outsideHandlers(t)
        /\ postHandlers' = [postHandlers EXCEPT ![h] = erase(@, k)]
        /\ postReg' = [postReg EXCEPT ![h][k] = "none"]
        /\ postOrder' = [postOrder EXCEPT ![h] = SelectSeq(@, LAMBDA x : x # k)]
        /\ lastCall' = [op |-> "remove", reg |-> "post", loop |-> h, key |-> k, fn |-> "none", had |-> postReg[h][k]]
        /\ UNCHANGED <<dateVars, noMark, freeLog, usedInvalid>>
        /\ UNCHANGED <<lifeVars, reactorVars, deferVars, passVars>>
        /\ UNCHANGED <<preHandlers, preReg, preOrder>>

\* ------------------------------------------- registry calls from a handler
\* Where the range-for stands after the handler at position i has erased key k
\* from registry m, k not being the handler's own key: the entries keep their
\* identity, so the iterator still refers to the handler's entry, which has
\* moved down by one when k stood before it; then the range-for increments.
afterErase(m, i, k) == IF find(m, k) # 0 /\ find(m, k) < i THEN i ELSE i + 1

\* Loop::preCb running the handler at its iterator when that handler calls
\* removePreHandler(k) or addPreHandler(k, f) on the loop (lines 40-46 with
\* 149-160 inlined), followed by the range-for's increment. When the handler
\* erases its own key, the entry the iterator refers to is destroyed and the
\* increment reads an invalidated iterator: the range-for goes on from the
\* next entry or from any later position, or the process crashes.
preCbMutating(t, op, k, f) ==
    LET h == loopOf(t)
        m == preHandlers[h]
        i == it[t]
    IN  /\ ~terminated
        /\ pc[t] = "pre"
        /\ i <= Len(m)
        /\ preLog' = [preLog EXCEPT ![h] = Append(@, m[i])]
        /\ lastCall' = [op |-> op, reg |-> "pre", loop |-> h, key |-> k,
                        fn |-> IF op = "add" THEN f ELSE "none", had |-> preReg[h][k]]
        /\ IF op = "add"
           THEN /\ preHandlers' = [preHandlers EXCEPT ![h] = emplace(m, k, f)]
                /\ preReg' = [preReg EXCEPT ![h][k] = f]
                /\ preOrder' = [preOrder EXCEPT ![h] = ordered(@, k)]
                /\ it' = [it EXCEPT ![t] = i + 1]
                /\ UNCHANGED <<usedInvalid, terminated>>
           ELSE /\ preHandlers' = [preHandlers EXCEPT ![h] = erase(m, k)]
                /\ preReg' = [preReg EXCEPT ![h][k] = "none"]
                /\ preOrder' = [preOrder EXCEPT ![h] = SelectSeq(@, LAMBDA x : x # k)]
                /\ IF m[i].key = k
                   THEN /\ usedInvalid' = TRUE
                        /\ \/ /\ \E n \in i..Len(m) : it' = [it EXCEPT ![t] = n]
                              /\ UNCHANGED terminated
                           \/ /\ terminated' = TRUE
                              /\ UNCHANGED it
                   ELSE /\ it' = [it EXCEPT ![t] = afterErase(m, i, k)]
                        /\ UNCHANGED <<usedInvalid, terminated>>
        /\ UNCHANGED <<lifeVars, pc, wakeupPending, deferVars, corkedSocket, postLog>>
        /\ UNCHANGED <<postHandlers, postReg, postOrder, dateVars, noMark, freeLog>>

\* Loop::postCb running the handler at its iterator when that handler calls
\* removePostHandler(k) or addPostHandler(k, f) on the loop (lines 48-53 with
\* 136-147 inlined), followed by the range-for's increment; as preCbMutating.
postCbMutating(t, op, k, f) ==
    LET h == loopOf(t)
        m == postHandlers[h]
        i == it[t]
    IN  /\ ~terminated
        /\ pc[t] = "post"
        /\ i <= Len(m)
        /\ postLog' = [postLog EXCEPT ![h] = Append(@, m[i])]
        /\ lastCall' = [op |-> op, reg |-> "post", loop |-> h, key |-> k,
                        fn |-> IF op = "add" THEN f ELSE "none", had |-> postReg[h][k]]
        /\ IF op = "add"
           THEN /\ postHandlers' = [postHandlers EXCEPT ![h] = emplace(m, k, f)]
                /\ postReg' = [postReg EXCEPT ![h][k] = f]
                /\ postOrder' = [postOrder EXCEPT ![h] = ordered(@, k)]
                /\ it' = [it EXCEPT ![t] = i + 1]
                /\ UNCHANGED <<usedInvalid, terminated>>
           ELSE /\ postHandlers' = [postHandlers EXCEPT ![h] = erase(m, k)]
                /\ postReg' = [postReg EXCEPT ![h][k] = "none"]
                /\ postOrder' = [postOrder EXCEPT ![h] = SelectSeq(@, LAMBDA x : x # k)]
                /\ IF m[i].key = k
                   THEN /\ usedInvalid' = TRUE
                        /\ \/ /\ \E n \in i..Len(m) : it' = [it EXCEPT ![t] = n]
                              /\ UNCHANGED terminated
                           \/ /\ terminated' = TRUE
                              /\ UNCHANGED it
                   ELSE /\ it' = [it EXCEPT ![t] = afterErase(m, i, k)]
                        /\ UNCHANGED <<usedInvalid, terminated>>
        /\ UNCHANGED <<lifeVars, pc, wakeupPending, deferVars, corkedSocket, preLog>>
        /\ UNCHANGED <<preHandlers, preReg, preOrder, dateVars, noMark, freeLog>>

\* --------------------------------------------------------- specifications
NextLife ==
    \/ \E t \in Threads, n \in NativeLoops : get(t, n)
    \/ \E t \in Threads : free(t)
    \/ \E t \in Threads : ThreadExit(t)

\* The lifecycle of the per-thread loops: get, free and thread exit on two threads.
SpecLife == Init /\ [][NextLife]_vars

\* The thread that owns and runs the loop in the single-loop specifications.
LoopThread == "T1"

NextDefer ==
    \/ get(LoopThread, nullptr)
    \/ run(LoopThread)
    \/ preCb(LoopThread)
    \/ dispatch(LoopThread)
    \/ wakeupCb(LoopThread)
    \/ postCb(LoopThread)
    \/ \E p \in Producers, h \in Handles : defer(p, h)

\* One running loop and the foreign threads that defer callbacks to it.
SpecDefer == Init /\ [][NextDefer]_vars

\* The same, with the reactor taking every step it can take and every thread
\* inside defer going on to its us_wakeup_loop call.
FairDefer ==
    /\ SpecDefer
    /\ WF_vars(preCb(LoopThread))
    /\ WF_vars(dispatch(LoopThread))
    /\ WF_vars(wakeupCb(LoopThread))
    /\ WF_vars(postCb(LoopThread))
    /\ \A p \in Producers : WF_vars(\E h \in Handles : defer(p, h) /\ prod[p].at = "wake")

\* Loop::get() called by a thread whose slot is empty: the call that creates
\* the thread's loop.
getFirst(t) ==
    /\ loopOf(t) = nullptr
    /\ get(t, nullptr)

NextHandlers ==
    \/ getFirst(LoopThread)
    \/ run(LoopThread)
    \/ \E k \in Keys, f \in HandlerFns : addPreHandler(LoopThread, k, f)
    \/ \E k \in Keys, f \in HandlerFns : addPostHandler(LoopThread, k, f)
    \/ \E k \in Keys : removePreHandler(LoopThread, k)
    \/ \E k \in Keys : removePostHandler(LoopThread, k)
    \/ preCb(LoopThread)
    \/ dispatch(LoopThread)
    \/ postCb(LoopThread)

\* One loop, its two handler registries and the iterations that run them.
SpecHandlers == Init /\ [][NextHandlers]_vars

\* The foreign thread that defers callbacks while the loops come and go.
Submitter == "P1"

NextFree ==
    \/ get(LoopThread, nullptr)
    \/ run(LoopThread)
    \/ preCb(LoopThread)
    \/ dispatch(LoopThread)
    \/ wakeupCb(LoopThread)
    \/ postCb(LoopThread)
    \/ free(LoopThread)
    \/ \E h \in Handles : defer(Submitter, h)

\* A thread that creates, runs and frees its loops while foreign threads defer
\* callbacks to them.
SpecFree == Init /\ [][NextFree]_vars

\* The same, with the reactor taking every step it can take and every thread
\* inside defer going on to its us_wakeup_loop call.
FairFree ==
    /\ SpecFree
    /\ WF_vars(preCb(LoopThread))
    /\ WF_vars(dispatch(LoopThread))
    /\ WF_vars(wakeupCb(LoopThread))
    /\ WF_vars(postCb(LoopThread))
    /\ WF_vars(\E h \in Handles : defer(Submitter, h) /\ prod[Submitter].at = "wake")

NextPhases ==
    \/ get(LoopThread, nullptr)
    \/ addPreHandler(LoopThread, 1, "a")
    \/ addPostHandler(LoopThread, 1, "b")
    \/ run(LoopThread)
    \/ preCb(LoopThread)
    \/ dispatch(LoopThread)
    \/ wakeupCb(LoopThread)
    \/ postCb(LoopThread)
    \/ \E h \in Handles : defer(Submitter, h)

\* One loop with pre-handlers, post-handlers and deferred callbacks: all the
\* phases of an iteration.
SpecPhases == Init /\ [][NextPhases]_vars

NextFrame ==
    \/ get(LoopThread, nullptr)
    \/ \E b \in BOOLEAN : setSilent(LoopThread, b)
    \/ addPreHandler(LoopThread, 1, "a")
    \/ addPostHandler(LoopThread, 1, "b")
    \/ \E k \in Keys : removePreHandler(LoopThread, k)
    \/ \E k \in Keys : removePostHandler(LoopThread, k)
    \/ run(LoopThread)
    \/ preCb(LoopThread)
    \/ dispatch(LoopThread)
    \/ wakeupCb(LoopThread)
    \/ postCb(LoopThread)
    \/ \E h \in Handles : defer(Submitter, h)

\* One loop whose registries are changed while callbacks are queued, the cork
\* buffer is taken and released and the silent flag is switched.
SpecFrame == Init /\ [][NextFrame]_vars

NextRedefer ==
    \/ get(LoopThread, nullptr)
    \/ run(LoopThread)
    \/ preCb(LoopThread)
    \/ dispatch(LoopThread)
    \/ wakeupCb(LoopThread)
    \/ wakeupCbRedefer(LoopThread)
    \/ postCb(LoopThread)
    \/ \E h \in Handles : defer(Submitter, h)

\* One running loop whose deferred callbacks may defer themselves again
\* without bound.
SpecRedefer == Init /\ [][NextRedefer]_vars

\* The same, with the reactor and the drain loop taking every step they can
\* take (what the callbacks do is not subject to fairness) and every thread
\* inside defer going on to its us_wakeup_loop call.
FairRedefer ==
    /\ SpecRedefer
    /\ WF_vars(preCb(LoopThread))
    /\ WF_vars(dispatch(LoopThread))
    /\ WF_vars(wakeupCb(LoopThread) \/ wakeupCbRedefer(LoopThread))
    /\ WF_vars(postCb(LoopThread))
    /\ WF_vars(\E h \in Handles : defer(Submitter, h) /\ prod[Submitter].at = "wake")

NextTimer ==
    \/ \E n \in NativeLoops : get(LoopThread, n)
    \/ run(LoopThread)
    \/ preCb(LoopThread)
    \/ dispatch(LoopThread)
    \/ postCb(LoopThread)
    \/ free(LoopThread)
    \/ Tick
    \/ \E h \in Handles : dateTimerCb(h)

\* One thread that creates, runs and frees its loops while the clock advances
\* and the date timers fire.
SpecTimer == Init /\ [][NextTimer]_vars

\* The calls a handler may make on the registry that is being iterated.
RegistryOps == {"add", "remove"}

NextMutate ==
    \/ get(LoopThread, nullptr)
    \/ run(LoopThread)
    \/ \E k \in Keys, f \in HandlerFns : addPreHandler(LoopThread, k, f)
    \/ \E k \in Keys, f \in HandlerFns : addPostHandler(LoopThread, k, f)
    \/ preCb(LoopThread)
    \/ \E op \in RegistryOps, k \in Keys, f \in HandlerFns : preCbMutating(LoopThread, op, k, f)
    \/ dispatch(LoopThread)
    \/ postCb(LoopThread)
    \/ \E op \in RegistryOps, k \in Keys, f \in HandlerFns : postCbMutating(LoopThread, op, k, f)

\* One loop whose pre- and post-handlers add and remove handlers of the
\* registry that is being iterated.
SpecMutate == Init /\ [][NextMutate]_vars

\* ----------------------------------------------------------------- claims
\* The callbacks still waiting in the deferQueue of loop h.
Queued(h) == {deferQueue[h][i] : i \in 1..Len(deferQueue[h])}

\* C1: every callback that has run was handed to defer before, has run once
\* only, and was run by wakeupCb on the thread that owns the loop it was
\* deferred to, never by the thread that deferred it from outside.
C1_DeferredRunsOnceOnLoopThread ==
    /\ \A i, j \in 1..Len(invoked) : i # j => invoked[i].cb # invoked[j].cb
    /\ \A i \in 1..Len(invoked) :
          /\ invoked[i].cb.seq \in 1..numDeferred
          /\ invoked[i].thread = owner[invoked[i].loop]
          /\ invoked[i].thread \notin Producers
          /\ invoked[i].drain >= 1
          /\ invoked[i].cb \notin Queued(invoked[i].loop)

\* C1 witness: callbacks deferred by both foreign threads have run.
C1_Witness ==
    /\ \E i \in 1..Len(invoked) : invoked[i].cb.by = "P1"
    /\ \E i \in 1..Len(invoked) : invoked[i].cb.by = "P2"

\* C2: the callbacks of a loop run in the order in which they were enqueued:
\* a callback that has run was enqueued before every callback that ran after
\* it and before every callback still waiting in the queue.
C2_DeferredRunsInFifoOrder ==
    /\ \A i, j \in 1..Len(invoked) :
          i < j /\ invoked[i].loop = invoked[j].loop => invoked[i].cb.seq < invoked[j].cb.seq
    /\ \A i \in 1..Len(invoked) :
          \A c \in Queued(invoked[i].loop) : invoked[i].cb.seq < c.seq

\* C2 witness: two callbacks of the same foreign thread have run in different
\* drains, with a callback of the other foreign thread between them.
C2_Witness ==
    \E i, j, k \in 1..Len(invoked) :
        /\ i < k /\ k < j
        /\ invoked[i].cb.by = "P1" /\ invoked[j].cb.by = "P1"
        /\ invoked[k].cb.by = "P2"
        /\ invoked[i].drain < invoked[j].drain

\* A callback with enqueue number n is waiting in some deferQueue / has run.
IsQueued(n) == \E h \in Handles : \E c \in Queued(h) : c.seq = n
HasRun(n) == \E i \in 1..Len(invoked) : invoked[i].cb.seq = n

\* C3: a callback waiting in the queue of a loop that keeps running (run() does
\* not return and the process is not terminated) is eventually run, with no
\* further stimulus.
C3_NoStrandedCallback ==
    \A n \in 1..MaxCb :
        IsQueued(n) ~> (HasRun(n) \/ pc[LoopThread] = "idle" \/ terminated)

\* C3 witness: a callback deferred by a foreign thread has run in a second or
\* later drain while a later callback is already waiting.
C3_Witness ==
    \E i \in 1..Len(invoked) :
        /\ invoked[i].cb.by \in Producers
        /\ invoked[i].drain >= 2
        /\ deferQueue[invoked[i].loop] # << >>

\* The lifecycle state of a thread's Loop: UNINIT until the first get(), LIVE
\* while the slot holds a loop, FREED once a loop of the thread was freed and
\* the slot is empty.
ThreadState(t) ==
    IF loopOf(t) # nullptr THEN "LIVE"
    ELSE IF \E h \in Handles : owner[h] = t /\ loopState[h] = "freed" THEN "FREED"
    ELSE "UNINIT"

\* C4: while a thread's slot holds a loop, every get() on that thread returns
\* that same handle and creates nothing, and the loops of two different
\* threads are distinct.
C4_GetReturnsSameHandle ==
    [][ /\ \A t \in Threads : loopOf(t) # nullptr =>
              /\ getRet'[t].loop = loopOf(t)
              /\ getRet'[t] # getRet[t] => ~getRet'[t].created
              /\ lazyLoop'[t].loop \in {nullptr, loopOf(t)}
              /\ \A h \in Handles :
                    loopState[h] = "uninit" /\ loopState'[h] # "uninit" => owner'[h] # t
        /\ \A t1, t2 \in Threads :
              t1 # t2 /\ lazyLoop'[t1].loop # nullptr => lazyLoop'[t1].loop # lazyLoop'[t2].loop
      ]_vars

\* C4 witness: both threads hold a loop and the last get() of T1 found its loop
\* already created.
C4_Witness ==
    /\ loopOf("T1") # nullptr
    /\ loopOf("T2") # nullptr
    /\ getRet["T1"].loop = loopOf("T1")
    /\ ~getRet["T1"].created

\* C5: at thread exit the LoopCleaner frees the thread's current Loop if and
\* only if that Loop was created natively (an adopted Loop is never freed by
\* thread-exit cleanup).
C5_CleanerFreesIffNative ==
    [][ \A t \in Threads :
            ~exited[t] /\ exited'[t] /\ loopOf(t) # nullptr =>
                ((loopOf(t) \in autoFreed') <=> ~adopted[loopOf(t)])
      ]_vars

\* C6 as stated: once a thread's Loop is FREED, nothing brings the thread's
\* Loop back to LIVE.
C6_ThreadNeverLiveAgain ==
    [][ \A t \in Threads : ThreadState(t) = "FREED" => ThreadState(t)' = "FREED" ]_vars

\* C6 amended: a freed Loop never becomes live again and the slot never holds a
\* Loop that is not live; a thread that is LIVE again after FREED holds a Loop
\* that did not exist before the get() that created it.
C6_FreedLoopStaysFreed ==
    [][ /\ \A h \in Handles : loopState[h] = "freed" => loopState'[h] = "freed"
        /\ \A t \in Threads :
              lazyLoop'[t].loop # nullptr => loopState'[lazyLoop'[t].loop] = "live"
        /\ \A t \in Threads :
              ThreadState(t) = "FREED" /\ ThreadState(t)' = "LIVE" =>
                  loopState[lazyLoop'[t].loop] = "uninit"
      ]_vars

\* C6 witness: a thread that freed a Loop holds a live Loop again.
C6_Witness ==
    \E t \in Threads :
        /\ loopOf(t) # nullptr
        /\ \E h \in Handles : owner[h] = t /\ loopState[h] = "freed"

\* C7: postCb returns only after its last post-handler and only with
\* corkedSocket null; with corkedSocket set it terminates the process, after
\* which nothing runs; so no iteration starts while the cork buffer is held.
C7_NoCorkAcrossIterations ==
    [][ /\ \A t \in Threads :
              pc[t] = "post" /\ pc'[t] # "post" =>
                  /\ it[t] > Len(postHandlers[loopOf(t)])
                  /\ corkedSocket[loopOf(t)] = nullptr
        /\ \A t \in Threads :
              pc[t] # "pre" /\ pc'[t] = "pre" => corkedSocket'[lazyLoop'[t].loop] = nullptr
        /\ ~terminated /\ terminated' =>
              \E t \in Threads :
                  /\ pc[t] = "post"
                  /\ it[t] > Len(postHandlers[loopOf(t)])
                  /\ corkedSocket[loopOf(t)] # nullptr
        /\ ~terminated
      ]_vars

\* C7 witness: the process was terminated by postCb after its post-handlers
\* ran and left the cork buffer held.
C7_Witness ==
    /\ terminated
    /\ corkedSocket[loopOf(LoopThread)] # nullptr
    /\ postLog[loopOf(LoopThread)] # << >>

\* The entries stored under key k in registry m.
EntriesOf(m, k) == {i \in 1..Len(m) : m[i].key = k}

\* The registry the last add/remove call was made on, pre or post.
CalledRegistry == IF lastCall.reg = "pre" THEN preHandlers[lastCall.loop]
                  ELSE postHandlers[lastCall.loop]

\* C8: after add(k, f) the registry holds exactly one entry under k and it is
\* f, also when k held another handler before the call.
C8_AddReplaces ==
    lastCall.op = "add" =>
        /\ Cardinality(EntriesOf(CalledRegistry, lastCall.key)) = 1
        /\ \A i \in EntriesOf(CalledRegistry, lastCall.key) :
              CalledRegistry[i].fn = lastCall.fn

\* C8 witness: addPostHandler(k, b) was called while k held a.
C8_Witness ==
    /\ lastCall.op = "add"
    /\ lastCall.reg = "post"
    /\ lastCall.had = "a"
    /\ lastCall.fn = "b"

\* The handlers a pass has to run: the registered keys in registration order,
\* each with the handler registered under it.
Expected(order, reg) == [i \in 1..Len(order) |-> [key |-> order[i], fn |-> reg[order[i]]]]

\* C9: when the range-for of preCb (postCb) has reached the end, the handlers
\* it ran are exactly the registered ones, once each, in registration order.
C9_HandlersRunInInsertionOrder ==
    \A t \in Threads :
        LET h == loopOf(t)
        IN  /\ pc[t] = "pre" /\ it[t] > Len(preHandlers[h]) =>
                  preLog[h] = Expected(preOrder[h], preReg[h])
            /\ pc[t] = "post" /\ it[t] > Len(postHandlers[h]) =>
                  postLog[h] = Expected(postOrder[h], postReg[h])

\* C9 witness: a pre pass has run two handlers, the one with the greater key first.
C9_Witness ==
    LET h == loopOf(LoopThread)
    IN  /\ pc[LoopThread] = "pre"
        /\ it[LoopThread] > Len(preHandlers[h])
        /\ Len(preLog[h]) = 2
        /\ preLog[h][1].key > preLog[h][2].key

\* C10: after remove(k) the registry holds no entry under k; a remove of a key
\* that was not registered changes neither registry; and a handler that a pass
\* runs is the one currently registered under its key.
C10_RemovedHandlerNeverRuns ==
    [][ /\ lastCall'.op = "remove" =>
              /\ IF lastCall'.reg = "pre"
                 THEN EntriesOf(preHandlers'[lastCall'.loop], lastCall'.key) = {}
                 ELSE EntriesOf(postHandlers'[lastCall'.loop], lastCall'.key) = {}
              /\ lastCall'.had = "none" =>
                    /\ preHandlers' = preHandlers
                    /\ postHandlers' = postHandlers
        /\ \A h \in Handles :
              /\ Len(preLog'[h]) = Len(preLog[h]) + 1 =>
                    LET e == preLog'[h][Len(preLog'[h])]
                    IN  preReg[h][e.key] = e.fn
              /\ Len(postLog'[h]) = Len(postLog[h]) + 1 =>
                    LET e == postLog'[h][Len(postLog'[h])]
                    IN  postReg[h][e.key] = e.fn
      ]_vars

\* C10 witness: removePreHandler(k) was called from a dispatched callback of a
\* running loop while k held b, and another key stays registered.
C10_Witness ==
    LET h == loopOf(LoopThread)
    IN  /\ lastCall.op = "remove"
        /\ lastCall.reg = "pre"
        /\ lastCall.had = "b"
        /\ pc[LoopThread] = "dispatch"
        /\ preHandlers[h] # << >>

\* C11: a handler that adds or removes handlers of the registry being iterated
\* (its own key and the next handler's key included) leaves the iteration
\* valid, no invalidated iterator is used and the process does not crash, and
\* a handler removed during the pass is not invoked later in that pass.
C11_MutationDuringPassIsSafe ==
    [][ /\ ~usedInvalid'
        /\ \A h \in Handles :
              /\ Len(preLog'[h]) = Len(preLog[h]) + 1 =>
                    LET e == preLog'[h][Len(preLog'[h])]
                    IN  preReg[h][e.key] = e.fn
              /\ Len(postLog'[h]) = Len(postLog[h]) + 1 =>
                    LET e == postLog'[h][Len(postLog'[h])]
                    IN  postReg[h][e.key] = e.fn
      ]_vars

\* The steps of Loop::free in the order the claim gives.
FreeOrder == <<"us_timer_close", "~LoopData", "us_loop_free", "reset lazyLoop">>

\* C12: free() closes the date timer, destructs LoopData, has the reactor
\* free the loop and clears the thread-local slot, in this order; so the date
\* timer's handler never calls updateDate on a destructed LoopData, however
\* the timer's firings fall before and after free().
C12_TimerNeverFiresAfterFree ==
    /\ lastUpdate.live
    /\ \A h \in Handles : loopState[h] = "freed" =>
          /\ freeLog[h] = FreeOrder
          /\ dateTimer[h].state = "closed"
          /\ \A t \in Threads : loopOf(t) # h

\* C12 witness: a loop on a borrowed native loop was freed after its date
\* timer had fired, and the clock has passed the time of its next firing.
C12_Witness ==
    \E h \in Handles :
        /\ loopState[h] = "freed"
        /\ adopted[h]
        /\ dateString[h] # unset
        /\ now > dateTimer[h].next

\* The time the date timer of loop h last fired, or the loop's creation.
LastFired(h) == IF dateString[h] = unset THEN createdAt[h] ELSE dateString[h]

Discarded(n) == \E h \in Handles : loopState[h] = "freed" /\ \E c \in Queued(h) : c.seq = n

\* The callbacks of loop h that have run.
RunOn(h) == SelectSeq(invoked, LAMBDA e : e.loop = h)

\* Callbacks left in the deferQueue of a loop when free() runs are never
\* invoked, and after free() no callback of the freed loop runs.
DiscardedNeverRun ==
    [][ \A h \in Handles :
          /\ loopState'[h] = "freed" => \A c \in Queued(h)' : ~HasRun(c.seq)'
          /\ loopState[h] = "freed" => RunOn(h)' = RunOn(h) /\ deferQueue'[h] = deferQueue[h]
      ]_vars

\* C13 as stated: callbacks in deferQueue when free() runs are discarded
\* without being invoked, and every callback deferred to a loop that is never
\* freed does run.
C13_RunsUnlessFreed ==
    /\ DiscardedNeverRun
    /\ \A n \in 1..MaxCb :
          IsQueued(n) ~> (HasRun(n) \/ Discarded(n))

\* C13 amended: callbacks in deferQueue when free() runs are discarded without
\* being invoked, and every callback deferred to a loop that is not freed does
\* run as long as the loop keeps being run: run() has not returned and the
\* cork check has not terminated the process.
C13_RunsWhileRunning ==
    /\ DiscardedNeverRun
    /\ \A n \in 1..MaxCb :
          IsQueued(n) ~>
              (HasRun(n) \/ Discarded(n) \/ pc[LoopThread] = "idle" \/ terminated)

\* C13 witness: a loop was freed with a callback still in its deferQueue while
\* another of its callbacks had run, and a callback of the thread's next loop
\* has run since.
C13_Witness ==
    \E h \in Handles :
        /\ loopState[h] = "freed"
        /\ deferQueue[h] # << >>
        /\ RunOn(h) # << >>
        /\ \E g \in Handles : g # h /\ RunOn(g) # << >>

\* ~LoopCleaner would free the thread's loop if the thread exited now.
AutoFreedAtExit(t) == loopOf(t) # nullptr /\ lazyLoop[t].cleanMe

\* C14: a get() on a thread that already has a Loop, whatever its argument,
\* returns that Loop and changes neither the thread-local slot nor cleanMe nor
\* any Loop: whether the Loop is freed at thread exit stays as it was.
C14_GetLeavesOwnership ==
    [][ \A t \in Threads :
            loopOf(t) # nullptr /\ ~exited[t] /\ getRet'[t] # getRet[t] =>
                /\ getRet'[t].loop = loopOf(t)
                /\ lazyLoop' = lazyLoop
                /\ AutoFreedAtExit(t)' = AutoFreedAtExit(t)
                /\ loopState' = loopState
                /\ adopted' = adopted
                /\ numLoops' = numLoops
      ]_vars

\* C14 witness: a thread holding an adopted Loop that is not freed at thread
\* exit has called get() again without an argument.
C14_Witness ==
    \E t \in Threads :
        /\ loopOf(t) # nullptr
        /\ adopted[loopOf(t)]
        /\ ~lazyLoop[t].cleanMe
        /\ getRet[t] = [loop |-> loopOf(t), created |-> FALSE, arg |-> nullptr]

\* The moves of us_loop_run from one phase to the next.
PhaseOrder ==
    { <<"idle", "pre">>, <<"pre", "dispatch">>, <<"dispatch", "drain">>, <<"dispatch", "post">>,
      <<"drain", "post">>, <<"post", "pre">>, <<"post", "idle">> }

\* C16: an iteration runs all pre-handlers, then the dispatch, then the
\* drain of the deferred queue when a wakeup is pending, then all
\* post-handlers, then the cork check: every handler and callback runs in its
\* own phase, a phase is left only when its work is done, and the cork check
\* is made only after the last post-handler, so a cork held when the
\* post-handlers start does not abort.
C16_PhasesInOrder ==
    [][ /\ terminated' /\ ~terminated =>
              \E t \in Threads :
                  /\ pc[t] = "post"
                  /\ it[t] > Len(postHandlers[loopOf(t)])
                  /\ corkedSocket[loopOf(t)] # nullptr
        /\ invoked' # invoked => pc[LoopThread] = "drain"
        /\ \A t \in Threads :
          LET h == loopOf(t)
          IN  /\ pc'[t] # pc[t] => <<pc[t], pc'[t]>> \in PhaseOrder
              /\ pc[t] = "pre" /\ pc'[t] # "pre" => it[t] > Len(preHandlers[h])
              /\ pc[t] = "dispatch" /\ pc'[t] # "dispatch" => (pc'[t] = "drain" <=> wakeupPending[h])
              /\ pc[t] = "drain" /\ pc'[t] # "drain" => deferQueue[h] = << >>
              /\ pc[t] = "post" /\ pc'[t] # "post" =>
                    it[t] > Len(postHandlers[h]) /\ corkedSocket[h] = nullptr
              /\ h # nullptr /\ preLog'[h] # preLog[h] /\ preLog'[h] # << >> => pc[t] = "pre"
              /\ h # nullptr /\ postLog'[h] # postLog[h] /\ postLog'[h] # << >> => pc[t] = "post"
      ]_vars

\* C16 witness: with no pre-handler registered, the post-handler is about to
\* run with the cork held since the dispatch, after a drain that ran a
\* callback, and the process has not been terminated.
C16_Witness ==
    LET h == loopOf(LoopThread)
    IN  /\ pc[LoopThread] = "post"
        /\ preHandlers[h] = << >>
        /\ it[LoopThread] = 1
        /\ Len(postHandlers[h]) = 1
        /\ corkedSocket[h] # nullptr
        /\ \E i \in 1..Len(invoked) : invoked[i].drain = numDrains
        /\ ~terminated

\* C17: wakeupCb returns only when it has found deferQueue empty, so a
\* callback enqueued while a drain is running, by a callback of that drain or
\* by another thread, is invoked in that same drain, after the callbacks
\* enqueued before it.
C17_DrainUntilEmpty ==
    [][ /\ \A t \in Threads :
              pc[t] = "drain" /\ pc'[t] # "drain" =>
                  deferQueue[loopOf(t)] = << >> /\ invoked' = invoked
        /\ \A i \in 1..Len(invoked') :
              LET e == invoked'[i]
              IN  /\ e.cb.during # 0 => e.drain = e.cb.during
                  /\ \A j \in 1..Len(invoked') :
                        invoked'[j].loop = e.loop /\ invoked'[j].cb.seq < e.cb.seq => j < i
      ]_vars

\* C17 witness: a callback deferred by a callback of a drain and a callback
\* deferred by another thread during that drain have both run in it.
C17_Witness ==
    \E i, j \in 1..Len(invoked) :
        /\ invoked[i].cb.by = LoopThread
        /\ invoked[j].cb.by \in Producers
        /\ invoked[i].cb.during # 0
        /\ invoked[j].cb.during = invoked[i].cb.during
        /\ invoked[j].drain = invoked[i].drain

\* C18: thread-exit cleanup never frees a loop twice: ~LoopCleaner frees only
\* a live Loop, and when the thread has freed its Loop itself and has not
\* called get() since, the slot is null and ~LoopCleaner frees nothing.
C18_CleanerNeverFreesTwice ==
    [][ /\ \A h \in autoFreed' \ autoFreed : loopState[h] = "live"
        /\ \A h \in Handles : loopState[h] = "freed" => freeLog'[h] = freeLog[h]
        /\ \A t \in Threads :
              ~exited[t] /\ exited'[t] /\ loopOf(t) = nullptr =>
                  /\ autoFreed' = autoFreed
                  /\ loopState' = loopState
                  /\ freeLog' = freeLog
      ]_vars

\* C18 witness: a thread has exited after it freed its native Loop itself,
\* with cleanMe still set, and the cleaner has not freed that Loop.
C18_Witness ==
    \E t \in Threads, h \in Handles :
        /\ exited[t]
        /\ lazyLoop[t] = [loop |-> nullptr, cleanMe |-> TRUE]
        /\ getRet[t].loop = h
        /\ owner[h] = t
        /\ ~adopted[h]
        /\ loopState[h] = "freed"
        /\ h \notin autoFreed

\* A drain is running / the post-handlers have been reached / the iteration
\* has ended with the cork check made.
InDrain == pc[LoopThread] = "drain"
InPost == pc[LoopThread] = "post"
IterationEnded == pc[LoopThread] \in {"pre", "idle"} \/ terminated

\* C19 as stated: every drain terminates and the post-handlers and the cork
\* check are eventually reached, whatever the callbacks and the foreign
\* threads enqueue during the drain.
C19_EveryDrainTerminates ==
    /\ InDrain ~> InPost
    /\ InPost ~> IterationEnded

\* A step that enqueues a callback while a drain is running.
EnqueuesInDrain ==
    /\ InDrain
    /\ \E h \in Handles :
          /\ deferQueue'[h] # << >>
          /\ deferQueue'[h] # deferQueue[h]
          /\ deferQueue[h] = << >> \/ deferQueue'[h] # Tail(deferQueue[h])

\* C19 amended: a drain terminates, and the post-handlers and the cork check
\* are reached, unless callbacks keep being enqueued during the drain for
\* ever: wakeupCb has no bound, so it returns only once the enqueuing stops
\* and the queue has been found empty.
C19_DrainTerminatesUnlessFed ==
    \/ []<><<EnqueuesInDrain>>_vars
    \/ /\ InDrain ~> InPost
       /\ InPost ~> IterationEnded

\* C19 witness: the post-handlers have been reached after a drain in which a
\* callback deferred itself again and so had its last run after a callback
\* enqueued later.
C19_Witness ==
    /\ InPost
    /\ \E i, j \in 1..Len(invoked) :
          /\ i < j
          /\ invoked[i].cb.seq > invoked[j].cb.seq
          /\ invoked[i].drain = numDrains
          /\ invoked[j].drain = numDrains

\* ------------------------------------------------------------------ C20
\* The step is a call of one of the four registry operations.
isRegistryCall(c) == c.op \in RegistryOps

\* C20: addPreHandler and removePreHandler change only preHandlers,
\* addPostHandler and removePostHandler change only postHandlers: a call on one
\* registry leaves the other registry, deferQueue, corkedSocket and noMark as
\* they were, so a key registered in both registries and removed from one is
\* still registered, with its handler, in the other, from where its pass
\* invokes it.
C20_RegistriesIndependent ==
    [][isRegistryCall(lastCall') =>
          /\ UNCHANGED <<deferQueue, corkedSocket, noMark>>
          /\ lastCall'.reg = "pre" => UNCHANGED postHandlers
          /\ lastCall'.reg = "post" => UNCHANGED preHandlers
          /\ \A h \in Handles :
                /\ lastCall'.reg = "pre" /\ find(postHandlers[h], lastCall'.key) # 0
                      => find(postHandlers'[h], lastCall'.key) # 0
                /\ lastCall'.reg = "post" /\ find(preHandlers[h], lastCall'.key) # 0
                      => find(preHandlers'[h], lastCall'.key) # 0]_vars

\* C20 witness: removePreHandler(k) has just removed a key that postHandlers
\* holds too, on a loop with a callback queued, the cork buffer taken and the
\* silent flag set.
C20_Witness ==
    /\ lastCall.op = "remove"
    /\ lastCall.reg = "pre"
    /\ lastCall.had # "none"
    /\ find(preHandlers[lastCall.loop], lastCall.key) = 0
    /\ find(postHandlers[lastCall.loop], lastCall.key) # 0
    /\ deferQueue[lastCall.loop] # << >>
    /\ corkedSocket[lastCall.loop] # nullptr
    /\ noMark[lastCall.loop]

====
